---- MODULE Spec2Model ----
(***************************************************************************)
(* Model of src/main.py: the rewriter that replaces                        *)
(*     <img src="..." v-svg-inline ...>                                    *)
(* tags of a .vue document by generated icon components and splices the    *)
(* matching import statements into the script section.                     *)
(*                                                                         *)
(* Text is modelled as TLA+ strings, read character by character with      *)
(* SubSeq; every regular expression of the source is an operator that      *)
(* computes what re.search / re.finditer / re.split compute on the text.   *)
(* Offsets are Python offsets: "offset k" means k characters lie before    *)
(* the position, so content[:k] is SubSeq(content, 1, k).                  *)
(* Not modelled: the except branch of process_vue_file (I/O and decoding   *)
(* errors), find_vue_files and main (directory walk, prompts, printing).   *)
(***************************************************************************)
EXTENDS Integers, Sequences, FiniteSets, TLC

VARIABLES
    file,              \* the document on disk (file_path's contents)
    content,           \* process_vue_file: content
    original_content,  \* process_vue_file: original_content
    matches,           \* the matches re.finditer(img_pattern, content) yields
    idx,               \* position of the for loop in matches
    img_tag,           \* process_vue_file: img_tag of the current iteration
    parsed,            \* process_vue_file: parsed (result of parse_img_tag)
    parse_log,         \* every tag text handed to parse_img_tag, in order
    imports_to_add,    \* process_vue_file: imports_to_add
    replacements,      \* process_vue_file: replacements, pairs <<old, new>>
    skipped_img_tags,  \* process_vue_file: skipped_img_tags
    script_start,      \* process_vue_file: script_start
    last_import_end,   \* process_vue_file: last_import_end
    insert_at,         \* offset at which import_text was spliced (-1: never)
    warned,            \* the "No script tag found" warning was printed
    written,           \* the file was opened for writing and written
    result,            \* return value of process_vue_file ("none" while running)
    svg_path,          \* extract_filename_from_path: svg_path
    component_name,    \* extract_filename_from_path's result
    pc                 \* position in process_vue_file / extract_filename_from_path

vars == <<file, content, original_content, matches, idx, img_tag, parsed,
          parse_log, imports_to_add, replacements, skipped_img_tags,
          script_start, last_import_end, insert_at, warned, written, result,
          svg_path, component_name, pc>>

----------------------------------------------------------------------------
(* Bounds of the model.                                                    *)

\* most candidate tags in one document
MaxTags == 2
\* most optional attribute tokens on one generated tag
MaxTokens == 2
\* most words in one generated file stem
MaxWords == 3

----------------------------------------------------------------------------
(* Python str primitives.                                                  *)

\* s[i-1:i]: the character at index i, "" outside the string
Char(s, i) == IF 1 <= i /\ i <= Len(s) THEN SubSeq(s, i, i) ELSE ""

\* s[i-1:].startswith(pat), i counted from 1
StartsWithAt(s, pat, i) ==
    /\ i >= 1
    /\ i + Len(pat) - 1 <= Len(s)
    /\ SubSeq(s, i, i + Len(pat) - 1) = pat

\* s.endswith(suffix)
EndsWith(s, suffix) ==
    /\ Len(suffix) <= Len(s)
    /\ SubSeq(s, Len(s) - Len(suffix) + 1, Len(s)) = suffix

\* least and greatest element of a non-empty set of integers
MinOf(S) == CHOOSE x \in S : \A y \in S : x <= y
MaxOf(S) == CHOOSE x \in S : \A y \in S : y <= x

\* s.find(pat, i-1) + 1: the first index >= i where pat starts, 0 when none
Find(s, pat, i) ==
    LET at == {j \in i..(Len(s) - Len(pat) + 1) : StartsWithAt(s, pat, j)}
    IN  IF at = {} THEN 0 ELSE MinOf(at)

\* pat in s
Contains(s, pat) == Find(s, pat, 1) # 0

\* s.rfind(pat) + 1: the last index where pat starts, 0 when none
RFind(s, pat) ==
    LET at == {j \in 1..(Len(s) - Len(pat) + 1) : StartsWithAt(s, pat, j)}
    IN  IF at = {} THEN 0 ELSE MaxOf(at)

\* s.replace(old, new): every non-overlapping occurrence, left to right
RECURSIVE Replace(_, _, _)
Replace(s, old, new) ==
    LET k == Find(s, old, 1) IN
    IF k = 0 THEN s
    ELSE SubSeq(s, 1, k - 1) \o new
            \o Replace(SubSeq(s, k + Len(old), Len(s)), old, new)

\* s.lstrip(c)
LStrip(s, c) ==
    LET keep == {j \in 1..Len(s) : Char(s, j) # c}
    IN  IF keep = {} THEN "" ELSE SubSeq(s, MinOf(keep), Len(s))

\* sep.join(parts)
RECURSIVE Join(_, _)
Join(parts, sep) ==
    IF parts = <<>> THEN ""
    ELSE IF Len(parts) = 1 THEN parts[1]
    ELSE parts[1] \o sep \o Join(Tail(parts), sep)

\* re.split over a one-character class: the pieces between separators,
\* empty pieces included
RECURSIVE SplitFrom(_, _, _)
SplitFrom(s, seps, start) ==
    LET at == {j \in start..Len(s) : Char(s, j) \in seps}
    IN  IF at = {} THEN <<SubSeq(s, start, Len(s))>>
        ELSE <<SubSeq(s, start, MinOf(at) - 1)>>
                \o SplitFrom(s, seps, MinOf(at) + 1)

Split(s, seps) == SplitFrom(s, seps, 1)

LowerLetters == "abcdefghijklmnopqrstuvwxyz"
UpperLetters == "ABCDEFGHIJKLMNOPQRSTUVWXYZ"
Digits == "0123456789"

\* index of character c in the string alphabet, 0 when absent
IndexIn(alphabet, c) == Find(alphabet, c, 1)

\* c.upper() and c.lower() of one character
ToUpper(c) ==
    LET k == IndexIn(LowerLetters, c) IN IF k = 0 THEN c ELSE Char(UpperLetters, k)

ToLower(c) ==
    LET k == IndexIn(UpperLetters, c) IN IF k = 0 THEN c ELSE Char(LowerLetters, k)

RECURSIVE LowerStr(_)
LowerStr(s) ==
    IF s = "" THEN "" ELSE ToLower(Char(s, 1)) \o LowerStr(SubSeq(s, 2, Len(s)))

\* word.capitalize(): first character upper-cased, ALL the others lower-cased
Capitalize(word) ==
    IF word = "" THEN ""
    ELSE ToUpper(Char(word, 1)) \o LowerStr(SubSeq(word, 2, Len(word)))

\* the characters regex \w matches
WordChars ==
    {Char(LowerLetters, i) : i \in 1..Len(LowerLetters)}
        \cup {Char(UpperLetters, i) : i \in 1..Len(UpperLetters)}
        \cup {Char(Digits, i) : i \in 1..Len(Digits)}
        \cup {"_"}

\* regex \w
IsWordChar(c) == c \in WordChars

\* regex \s
IsSpace(c) == c \in {" ", "\t", "\n", "\r", "\f"}

----------------------------------------------------------------------------
(* extract_filename_from_path                                              *)

\* Path(p).name: the last path component; empty and "." components drop out
PathName(p) ==
    LET parts == SelectSeq(Split(p, {"/"}), LAMBDA x : x # "" /\ x # ".")
    IN  IF parts = <<>> THEN "" ELSE parts[Len(parts)]

\* Path(p).stem: the name without its last suffix
PathStem(p) ==
    LET name == PathName(p)
        i == RFind(name, ".") - 1
    IN  IF 0 < i /\ i < Len(name) - 1 THEN SubSeq(name, 1, i) ELSE name

RECURSIVE CapitalizeAll(_)
CapitalizeAll(words) ==
    IF words = <<>> THEN ""
    ELSE Capitalize(Head(words)) \o CapitalizeAll(Tail(words))

\* faulty variant: the suffix is appended without looking at the name's ending
extract_filename_always_suffixed(path) ==
    CapitalizeAll(Split(PathStem(LStrip(path, "/")), {"-", "_"})) \o "Icon"

extract_filename_from_path(path) ==
    LET filename == PathStem(LStrip(path, "/"))
        words == Split(filename, {"-", "_"})
        pascal_case == CapitalizeAll(words)
    IN  IF EndsWith(pascal_case, "Icon") THEN pascal_case
        ELSE pascal_case \o "Icon"

----------------------------------------------------------------------------
(* Dictionaries (Python dict, insertion-ordered): sequences of             *)
(* [name, value] records; d[k] = v keeps the position of an existing key.  *)

DictSet(d, k, v) ==
    IF \E i \in 1..Len(d) : d[i].name = k
    THEN [i \in 1..Len(d) |-> IF d[i].name = k THEN [name |-> k, value |-> v]
                                ELSE d[i]]
    ELSE Append(d, [name |-> k, value |-> v])

----------------------------------------------------------------------------
(* parse_img_tag                                                           *)

\* last index of the longest run of \w characters that starts at index i
WordRunEnd(s, i) ==
    LET stop == {j \in (i + 1)..Len(s) : ~IsWordChar(Char(s, j))}
    IN  IF stop = {} THEN Len(s) ELSE MinOf(stop) - 1

\* last index of the greedy match of \w+(?:[seps]\w+)* that starts at index i
\* (Char(s, i) is a word character)
RECURSIVE NameEnd(_, _, _)
NameEnd(s, i, seps) ==
    LET e == WordRunEnd(s, i) IN
    IF e + 2 <= Len(s) /\ Char(s, e + 1) \in seps /\ IsWordChar(Char(s, e + 2))
    THEN NameEnd(s, e + 2, seps)
    ELSE e

\* re.search(r'src="([^"]*)"', img_tag): group 1, or "" without a match.
\* When the first src=" has no closing quote after it no later one has.
SrcOf(tag) ==
    LET k == Find(tag, "src=\"", 1)
        q == IF k = 0 THEN 0 ELSE Find(tag, "\"", k + 5)
    IN  IF q = 0 THEN "" ELSE SubSeq(tag, k + 5, q - 1)

\* the names parse_img_tag keeps out of attributes
ReservedAttrNames ==
    {"src", "v-svg-inline", "click", "dynamic-class", "dynamic-style",
     "v-if", "v-else-if", "v-else", "v-for"}

\* the loop over re.finditer(attr_pattern, temp_img_tag), from index i on,
\* attr_pattern = (\w+(?:-\w+)*)="([^"]*)".  A match at a word character
\* needs the greedy name to be followed by =" and a closing quote: any
\* shorter name is followed by a word character or a hyphen, never by =.
\* When the name that starts at b fails, so does every start inside it (the
\* greedy name from there ends at the same place): the search goes on after
\* the name.
RECURSIVE ScanAttributes(_, _, _)
ScanAttributes(s, i, attributes) ==
    LET starts == {j \in i..Len(s) : IsWordChar(Char(s, j))} IN
    IF starts = {} THEN attributes
    ELSE
      LET b == MinOf(starts)
          e == NameEnd(s, b, {"-"})
          q == IF StartsWithAt(s, "=\"", e + 1) THEN Find(s, "\"", e + 3) ELSE 0
          attr_name == SubSeq(s, b, e)
          attr_value == SubSeq(s, e + 3, q - 1)
      IN  IF q = 0 THEN ScanAttributes(s, e + 1, attributes)
          ELSE ScanAttributes(s, q + 1,
                  IF attr_name \notin ReservedAttrNames
                  THEN DictSet(attributes, attr_name, attr_value)
                  ELSE attributes)

\* length of the directive prefix (?:v-|@|:) at index i, 0 when none
DirectivePrefixLen(s, i) ==
    IF StartsWithAt(s, "v-", i) /\ IsWordChar(Char(s, i + 2)) THEN 2
    ELSE IF Char(s, i) \in {"@", ":"} /\ IsWordChar(Char(s, i + 1)) THEN 1
    ELSE 0

\* the loop over re.finditer(directive_pattern, img_tag), from index i on,
\* directive_pattern = ((?:v-|@|:)\w+(?:[.-]\w+)*)(?:="([^"]*)")?.  The name
\* is greedy and the value group optional, so the first attempt succeeds.
RECURSIVE ScanDirectives(_, _, _)
ScanDirectives(s, i, vue_directives) ==
    LET starts == {j \in i..Len(s) : DirectivePrefixLen(s, j) # 0} IN
    IF starts = {} THEN vue_directives
    ELSE
      LET b == MinOf(starts)
          e == NameEnd(s, b + DirectivePrefixLen(s, b), {".", "-"})
          q == IF StartsWithAt(s, "=\"", e + 1) THEN Find(s, "\"", e + 3) ELSE 0
          directive_name == SubSeq(s, b, e)
          directive_value == IF q = 0 THEN "" ELSE SubSeq(s, e + 3, q - 1)
          next == IF q = 0 THEN e + 1 ELSE q + 1
      IN  ScanDirectives(s, next,
              IF directive_name # "v-svg-inline"
              THEN DictSet(vue_directives, directive_name, directive_value)
              ELSE vue_directives)

\* line 29: the renaming that hides the class and style bindings from the
\* attribute scan (the second pattern is ':stye=', as the source spells it)
TempImgTag(tag) ==
    Replace(Replace(tag, ":class=", "dynamic-class="), ":stye=", "dynamic-style=")

parse_img_tag(tag) ==
    [src |-> SrcOf(tag),
     attributes |-> ScanAttributes(TempImgTag(tag), 1, <<>>),
     vue_directives |-> ScanDirectives(tag, 1, <<>>)]

----------------------------------------------------------------------------
(* find_script_tag_position                                                *)

\* first index >= i of a character that is not whitespace, Len(s)+1 when none
SkipSpaces(s, i) ==
    LET stop == {j \in i..Len(s) : ~IsSpace(Char(s, j))}
    IN  IF stop = {} THEN Len(s) + 1 ELSE MinOf(stop)

\* offset of the end of the line that holds index i
LineEnd(s, i) ==
    LET n == Find(s, "\n", i) IN IF n = 0 THEN Len(s) ELSE n - 1

\* ^ under re.MULTILINE
AtLineStart(s, i) == i = 1 \/ (i > 1 /\ Char(s, i - 1) = "\n")

\* the loop over re.finditer(r'^import\s+.*?$', rest, re.MULTILINE) from
\* index i on; acc is the end offset (in rest) of the last match so far.
\* \s+ is greedy and also takes line breaks; .*? then runs to the end of the
\* line on which the whitespace stopped.
RECURSIVE ScanImports(_, _, _)
ScanImports(rest, i, acc) ==
    LET starts == {j \in i..Len(rest) : /\ AtLineStart(rest, j)
                                        /\ StartsWithAt(rest, "import", j)
                                        /\ IsSpace(Char(rest, j + 6))}
    IN  IF starts = {} THEN acc
        ELSE LET p == SkipSpaces(rest, MinOf(starts) + 6)
                 e == IF p > Len(rest) THEN Len(rest) ELSE LineEnd(rest, p)
             IN  ScanImports(rest, e + 1, e)

\* faulty variant: a document without a script tag is answered with offset 0
find_script_tag_position_zero(text) ==
    LET p == Find(text, "<script", 1)
        q == IF p = 0 THEN 0 ELSE Find(text, ">", p + 7)
    IN  IF q = 0 THEN <<0, 0>>
        ELSE <<q, q + ScanImports(SubSeq(text, q + 1, Len(text)), 1, 0)>>

\* faulty variant: only the first import line is looked at
find_script_tag_position_first(text) ==
    LET p == Find(text, "<script", 1)
        q == IF p = 0 THEN 0 ELSE Find(text, ">", p + 7)
        rest == SubSeq(text, q + 1, Len(text))
        k == Find(rest, "import ", 1)
    IN  IF q = 0 THEN <<-1, -1>>
        ELSE IF k = 0 \/ ~AtLineStart(rest, k) THEN <<q, q>>
        ELSE <<q, q + LineEnd(rest, k)>>

\* <<script_start, last_import_end>>, <<-1, -1>> without a script tag.
\* re.search(r'<script[^>]*>'): the first "<script" and the first ">" after it.
find_script_tag_position(text) ==
    LET p == Find(text, "<script", 1)
        q == IF p = 0 THEN 0 ELSE Find(text, ">", p + 7)
    IN  IF q = 0 THEN <<-1, -1>>
        ELSE <<q, q + ScanImports(SubSeq(text, q + 1, Len(text)), 1, 0)>>

----------------------------------------------------------------------------
(* process_vue_file: the pieces of its body                                *)

\* re.finditer(img_pattern, content) from index i on,
\* img_pattern = <img[^>]*v-svg-inline[^>]*/?>.  A match that starts at p
\* ends at the first ">" after "<img" and needs the marker before it.
RECURSIVE FindImgTags(_, _)
FindImgTags(s, i) ==
    LET p == Find(s, "<img", i)
        q == IF p = 0 THEN 0 ELSE Find(s, ">", p + 4)
    IN  IF q = 0 THEN <<>>
        ELSE IF Contains(SubSeq(s, p + 4, q - 1), "v-svg-inline")
             THEN <<SubSeq(s, p, q)>> \o FindImgTags(s, q + 1)
             ELSE FindImgTags(s, p + 1)

\* faulty variant: no tag counts as having a dynamic source
HasDynamicSrcNever(tag) == FALSE

\* line 89: ":src" in img_tag
HasDynamicSrc(tag) == Contains(tag, ":src")

\* line 104
ImportStatement(name, src) ==
    "import " \o name \o " from '~/public" \o src \o "'"

\* faulty variant: every statement is appended, also one already in the list
AddImportAlways(imports, statement) == Append(imports, statement)

\* lines 105-106
AddImport(imports, statement) ==
    IF \E i \in 1..Len(imports) : imports[i] = statement THEN imports
    ELSE Append(imports, statement)

\* lines 112-115
RECURSIVE RenderAttributes(_)
RenderAttributes(attributes) ==
    IF attributes = <<>> THEN ""
    ELSE " " \o Head(attributes).name \o "=\"" \o Head(attributes).value \o "\""
            \o RenderAttributes(Tail(attributes))

\* lines 118-122
RECURSIVE RenderDirectives(_)
RenderDirectives(directives) ==
    IF directives = <<>> THEN ""
    ELSE (IF Head(directives).value # ""
          THEN " " \o Head(directives).name \o "=\""
                   \o Head(directives).value \o "\""
          ELSE " " \o Head(directives).name)
            \o RenderDirectives(Tail(directives))

\* lines 109-125: replacement_component
ReplacementComponent(name, p) ==
    "<" \o name \o RenderAttributes(p.attributes)
        \o RenderDirectives(p.vue_directives) \o " />"

\* line 140
ImportText(imports) == "\n" \o Join(imports, "\n") \o "\n"

\* lines 150-151
RECURSIVE ApplyReplacements(_, _)
ApplyReplacements(text, pairs) ==
    IF pairs = <<>> THEN text
    ELSE ApplyReplacements(Replace(text, Head(pairs)[1], Head(pairs)[2]),
                           Tail(pairs))

----------------------------------------------------------------------------
(* The documents, tags and paths the specifications start from.            *)

\* candidate tags of the documents of Spec
DocTags ==
    << "<img src=\"/icons/arrow-left.svg\" v-svg-inline alt=\"Back\" />",
       "<img :src=\"dynamicPath\" v-svg-inline />",
       "<img src=\"/icons/close.svg\" v-svg-inline v-if=\"show\" />",
       "<img src=\"/other/close.svg\" v-svg-inline>",
       "<img v-svg-inline alt=\"x\" />",
       "<img alt=\"Again\" v-svg-inline src=\"/icons/arrow-left.svg\">" >>

\* script sections, each before or after the template: none; empty; two
\* imports then code; imports scattered among code; a second section that
\* holds the only import; an import keyword alone on its line
DocScripts ==
    << [first |-> FALSE, text |-> ""],
       [first |-> FALSE, text |-> "<script>\n</script>\n"],
       [first |-> TRUE, text |->
          "<script setup>\nimport x from 'x'\nimport y from 'y'\nconst z = 1\n</script>\n"],
       [first |-> FALSE, text |->
          "<script>\nimport x from 'x'\nconst z = 1\nimport y from 'y'\nfoo()\n</script>\n"],
       [first |-> FALSE, text |->
          "<script>\nconst z = 1\n</script>\n<script setup>\nimport y from 'y'\n</script>\n"],
       [first |-> FALSE, text |-> "<script>\nimport\nimport \nfoo()\n</script>\n"] >>

TagSeqs(universe, lo, hi) ==
    UNION {[1..n -> 1..Len(universe)] : n \in lo..hi}

TemplateOf(tags) == "<template>\n" \o Join(tags, "\n") \o "\n</template>\n"

DocOf(tags, script) ==
    IF script.first THEN script.text \o TemplateOf(tags)
    ELSE TemplateOf(tags) \o script.text

\* the pieces of the generated tags of SpecTag
SrcTokens == << " src=\"/a.svg\"", " :src=\"d\"", "" >>

TagTokens ==
    << " alt=\"Back\"", " :alt=\"k\"", " style=\"a\"", " :style=\"b\"",
       " class=\"a\"", " :class=\"b\"", " v-show=\"k\"", " v-if=\"k\"",
       " @click=\"f\"", " @click.prevent=\"f\"", " data-x=\"1\"", " v-else" >>

TagOf(srcTok, toks) ==
    "<img" \o srcTok \o " v-svg-inline"
           \o Join([i \in 1..Len(toks) |-> TagTokens[toks[i]]], "") \o " />"

\* the words of the generated file stems of SpecName
StemWords == <<"user", "profile", "icon", "arrowLeft">>

StemSeparators == <<"-", "_">>
PathPrefixes == <<"", "/icons/">>

\* the stem of words ws joined by the separators seps[1], seps[2], ...
RECURSIVE StemOf(_, _)
StemOf(ws, seps) ==
    IF Len(ws) = 1 THEN StemWords[ws[1]]
    ELSE StemWords[ws[1]] \o StemSeparators[seps[1]]
            \o StemOf(Tail(ws), Tail(seps))

\* <<words, separators>> of every generated stem
StemShapes ==
    UNION {[1..n -> 1..Len(StemWords)] \X [1..(n - 1) -> 1..Len(StemSeparators)]
             : n \in 1..MaxWords}

PathOf(prefix, shape) ==
    PathPrefixes[prefix] \o StemOf(shape[1], shape[2]) \o ".svg"

----------------------------------------------------------------------------
(* The state machine.                                                      *)

NoParse == [src |-> "", attributes |-> <<>>, vue_directives |-> <<>>]

\* process_vue_file has read text and listed the candidate tags
Started(text) ==
    /\ file = text
    /\ content = text
    /\ original_content = text
    /\ matches = FindImgTags(text, 1)
    /\ idx = 1
    /\ img_tag = ""
    /\ parsed = NoParse
    /\ parse_log = <<>>
    /\ imports_to_add = <<>>
    /\ replacements = <<>>
    /\ skipped_img_tags = <<>>
    /\ script_start = -1
    /\ last_import_end = -1
    /\ insert_at = -1
    /\ warned = FALSE
    /\ written = FALSE
    /\ result = "none"
    /\ svg_path = ""
    /\ component_name = ""
    /\ pc = "scan"

Init ==
    \E ts \in TagSeqs(DocTags, 0, MaxTags), s \in 1..Len(DocScripts) :
        Started(DocOf([i \in 1..Len(ts) |-> DocTags[ts[i]]], DocScripts[s]))

InitTag ==
    \E src \in 1..Len(SrcTokens), toks \in TagSeqs(TagTokens, 0, MaxTokens),
       s \in {1, 3} :
        Started(DocOf(<<TagOf(SrcTokens[src], toks)>>, DocScripts[s]))

InitName ==
    \E prefix \in 1..Len(PathPrefixes), shape \in StemShapes :
        /\ svg_path = PathOf(prefix, shape)
        /\ component_name = ""
        /\ pc = "resolve"
        /\ file = ""
        /\ content = ""
        /\ original_content = ""
        /\ matches = <<>>
        /\ idx = 1
        /\ img_tag = ""
        /\ parsed = NoParse
        /\ parse_log = <<>>
        /\ imports_to_add = <<>>
        /\ replacements = <<>>
        /\ skipped_img_tags = <<>>
        /\ script_start = -1
        /\ last_import_end = -1
        /\ insert_at = -1
        /\ warned = FALSE
        /\ written = FALSE
        /\ result = "none"

\* lines 89-91: a tag with a dynamic source is recorded and passed over
SkipDynamicSrc ==
    /\ pc = "scan"
    /\ idx <= Len(matches)
    /\ HasDynamicSrc(matches[idx])
    /\ img_tag' = matches[idx]
    /\ skipped_img_tags' = Append(skipped_img_tags, matches[idx])
    /\ idx' = idx + 1
    /\ UNCHANGED <<file, content, original_content, matches, parsed, parse_log,
                   imports_to_add, replacements, script_start, last_import_end,
                   insert_at, warned, written, result, svg_path,
                   component_name, pc>>

\* lines 93-98: a parsed tag without a source is dropped
DropEmptySrc ==
    /\ pc = "scan"
    /\ idx <= Len(matches)
    /\ ~HasDynamicSrc(matches[idx])
    /\ LET p == parse_img_tag(matches[idx])
       IN  /\ p.src = ""
           /\ parsed' = p
    /\ img_tag' = matches[idx]
    /\ parse_log' = Append(parse_log, matches[idx])
    /\ idx' = idx + 1
    /\ UNCHANGED <<file, content, original_content, matches, imports_to_add,
                   replacements, skipped_img_tags, script_start,
                   last_import_end, insert_at, warned, written, result,
                   svg_path, component_name, pc>>

\* lines 93-127: import recorded, replacement rendered and recorded
TransformTag ==
    /\ pc = "scan"
    /\ idx <= Len(matches)
    /\ ~HasDynamicSrc(matches[idx])
    /\ LET p == parse_img_tag(matches[idx])
           name == extract_filename_from_path(p.src)
       IN  /\ p.src # ""
           /\ parsed' = p
           /\ svg_path' = p.src
           /\ component_name' = name
           /\ imports_to_add' =
                  AddImport(imports_to_add, ImportStatement(name, p.src))
           /\ replacements' =
                  Append(replacements,
                         <<matches[idx], ReplacementComponent(name, p)>>)
    /\ img_tag' = matches[idx]
    /\ parse_log' = Append(parse_log, matches[idx])
    /\ idx' = idx + 1
    /\ UNCHANGED <<file, content, original_content, matches, skipped_img_tags,
                   script_start, last_import_end, insert_at, warned, written,
                   result, pc>>

\* lines 129-130: nothing to import, "no changes"
NoChanges ==
    /\ pc = "scan"
    /\ idx > Len(matches)
    /\ imports_to_add = <<>>
    /\ result' = FALSE
    /\ pc' = "done"
    /\ UNCHANGED <<file, content, original_content, matches, idx, img_tag,
                   parsed, parse_log, imports_to_add, replacements,
                   skipped_img_tags, script_start, last_import_end, insert_at,
                   warned, written, svg_path, component_name>>

\* line 133
LocateScript ==
    /\ pc = "scan"
    /\ idx > Len(matches)
    /\ imports_to_add # <<>>
    /\ LET position == find_script_tag_position(content)
       IN  /\ script_start' = position[1]
           /\ last_import_end' = position[2]
    /\ pc' = "located"
    /\ UNCHANGED <<file, content, original_content, matches, idx, img_tag,
                   parsed, parse_log, imports_to_add, replacements,
                   skipped_img_tags, insert_at, warned, written, result,
                   svg_path, component_name>>

\* lines 135-137: no script tag, a warning and False
NoScriptTag ==
    /\ pc = "located"
    /\ script_start = -1
    /\ warned' = TRUE
    /\ result' = FALSE
    /\ pc' = "done"
    /\ UNCHANGED <<file, content, original_content, matches, idx, img_tag,
                   parsed, parse_log, imports_to_add, replacements,
                   skipped_img_tags, script_start, last_import_end, insert_at,
                   written, svg_path, component_name>>

\* lines 140-147: import_text spliced after the existing imports, or right
\* after the script tag
InsertImports ==
    /\ pc = "located"
    /\ script_start # -1
    /\ LET at == IF last_import_end > script_start THEN last_import_end
                 ELSE script_start
       IN  /\ insert_at' = at
           /\ content' = SubSeq(content, 1, at) \o ImportText(imports_to_add)
                            \o SubSeq(content, at + 1, Len(content))
    /\ pc' = "replace"
    /\ UNCHANGED <<file, original_content, matches, idx, img_tag, parsed,
                   parse_log, imports_to_add, replacements, skipped_img_tags,
                   script_start, last_import_end, warned, written, result,
                   svg_path, component_name>>

\* lines 150-162: every recorded pair replaced in the text, the file
\* written, True
ReplaceAndWrite ==
    /\ pc = "replace"
    /\ LET text == ApplyReplacements(content, replacements)
       IN  /\ content' = text
           /\ file' = text
    /\ written' = TRUE
    /\ result' = TRUE
    /\ pc' = "done"
    /\ UNCHANGED <<original_content, matches, idx, img_tag, parsed, parse_log,
                   imports_to_add, replacements, skipped_img_tags,
                   script_start, last_import_end, insert_at, warned, svg_path,
                   component_name>>

\* extract_filename_from_path called on svg_path
ResolveName ==
    /\ pc = "resolve"
    /\ component_name' = extract_filename_from_path(svg_path)
    /\ pc' = "resolved"
    /\ UNCHANGED <<file, content, original_content, matches, idx, img_tag,
                   parsed, parse_log, imports_to_add, replacements,
                   skipped_img_tags, script_start, last_import_end, insert_at,
                   warned, written, result, svg_path>>

Next ==
    \/ SkipDynamicSrc
    \/ DropEmptySrc
    \/ TransformTag
    \/ NoChanges
    \/ LocateScript
    \/ NoScriptTag
    \/ InsertImports
    \/ ReplaceAndWrite

NextName == ResolveName

\* process_vue_file on documents of up to MaxTags candidate tags
Spec == Init /\ [][Next]_vars

\* process_vue_file on documents of one generated candidate tag
SpecTag == InitTag /\ [][Next]_vars

\* extract_filename_from_path on generated paths
SpecName == InitName /\ [][NextName]_vars

----------------------------------------------------------------------------
(* What the documents of Spec are expected to yield, written out by hand.  *)

\* the static source path a tag of DocTags references, "" when it has none
SourcePathOf(tag) ==
    CASE tag = DocTags[1] -> "/icons/arrow-left.svg"
      [] tag = DocTags[3] -> "/icons/close.svg"
      [] tag = DocTags[4] -> "/other/close.svg"
      [] tag = DocTags[6] -> "/icons/arrow-left.svg"
      [] OTHER -> ""

\* the import statement a tag of DocTags calls for, "" when it calls for none
ExpectedImportOf(tag) ==
    CASE tag = DocTags[1] -> "import ArrowLeftIcon from '~/public/icons/arrow-left.svg'"
      [] tag = DocTags[3] -> "import CloseIcon from '~/public/icons/close.svg'"
      [] tag = DocTags[4] -> "import CloseIcon from '~/public/other/close.svg'"
      [] tag = DocTags[6] -> "import ArrowLeftIcon from '~/public/icons/arrow-left.svg'"
      [] OTHER -> ""

\* number of indices of sequence q that hold x
CountOf(q, x) == Cardinality({i \in 1..Len(q) : q[i] = x})

\* first index of sequence q that holds x (x occurs in q)
FirstIndexOf(q, x) == MinOf({i \in 1..Len(q) : q[i] = x})

\* the import statements of the tags transformed so far, one per tag
TransformedStatements ==
    [i \in 1..Len(replacements) |-> ExpectedImportOf(replacements[i][1])]

\* the tag carries a dynamic-source binding
IsDynamic(tag) == Contains(tag, ":src")

\* the candidate tags the loop has been through
Processed == 1..(idx - 1)

----------------------------------------------------------------------------
(* C1: every non-reserved plain attribute name="value" written on a        *)
(* transformed tag appears on its replacement with the same value, and     *)
(* these attributes keep their relative order.                             *)

\* the plain, non-reserved attributes the generated tags can carry
PlainAttrs == {" alt=\"Back\"", " style=\"a\"", " class=\"a\"", " data-x=\"1\""}

AttributesCarried(old, new) ==
    /\ \A a \in PlainAttrs : Contains(old, a) => Contains(new, a)
    /\ \A a, b \in PlainAttrs :
          (Contains(old, a) /\ Contains(old, b)
              /\ Find(old, a, 1) < Find(old, b, 1))
            => Find(new, a, 1) < Find(new, b, 1)

C1_AttributeRoundTrip ==
    \A i \in 1..Len(replacements) :
        AttributesCarried(replacements[i][1], replacements[i][2])

----------------------------------------------------------------------------
(* C2: transformed tags that reference the same source path contribute     *)
(* exactly one import statement, and the import list holds the statements  *)
(* of the transformed tags in the order of their first occurrence.         *)

C2_ImportsDeduplicated ==
    /\ \A i \in 1..Len(replacements) :
          CountOf(imports_to_add, TransformedStatements[i]) = 1
    /\ \A k \in 1..Len(imports_to_add) :
          CountOf(TransformedStatements, imports_to_add[k]) >= 1
    /\ \A k, l \in 1..Len(imports_to_add) :
          k < l => FirstIndexOf(TransformedStatements, imports_to_add[k])
                     < FirstIndexOf(TransformedStatements, imports_to_add[l])

\* two different tags with one source path and one import between them
C2_Witness ==
    /\ pc = "done"
    /\ result = TRUE
    /\ \E i, j \in 1..Len(replacements) :
          /\ i < j
          /\ replacements[i][1] # replacements[j][1]
          /\ SourcePathOf(replacements[i][1]) = SourcePathOf(replacements[j][1])
    /\ Len(imports_to_add) = 1

----------------------------------------------------------------------------
(* C3: no two import statements of the import list import the same         *)
(* component name.                                                         *)

\* the name between "import " and " from"
ImportedName(statement) == SubSeq(statement, 8, Find(statement, " from ", 1) - 1)

C3_OneImportPerName ==
    \A k, l \in 1..Len(imports_to_add) :
        k # l => ImportedName(imports_to_add[k]) # ImportedName(imports_to_add[l])

----------------------------------------------------------------------------
(* C4: where the import block is spliced.                                  *)

\* the text after the first script opening tag
AfterScriptTag(text) ==
    SubSeq(text, Find(text, ">", Find(text, "<script", 1)) + 1, Len(text))

\* offset of the end of the first script opening tag
ScriptTagEnd(text) == Find(text, ">", Find(text, "<script", 1))

LineStarts(rest) == {1} \cup {j + 1 : j \in {k \in 1..Len(rest) : Char(rest, k) = "\n"}}

\* the line that starts at j is an import line: the keyword, blanks, and
\* the rest of the statement on the same line
IsImportLine(rest, j) ==
    /\ StartsWithAt(rest, "import", j)
    /\ Char(rest, j + 6) \in {" ", "\t"}
    /\ \E k \in (j + 7)..LineEnd(rest, j) : ~IsSpace(Char(rest, k))

\* the line that starts at j begins with the keyword and whitespace
BeginsWithImport(rest, j) ==
    StartsWithAt(rest, "import", j) /\ IsSpace(Char(rest, j + 6))

IsBlankLine(rest, j) == \A k \in j..LineEnd(rest, j) : IsSpace(Char(rest, k))

\* every line after the script tag that begins with the keyword is an
\* import line
ImportLinesWellFormed(text) ==
    \A j \in LineStarts(AfterScriptTag(text)) :
        BeginsWithImport(AfterScriptTag(text), j) => IsImportLine(AfterScriptTag(text), j)

\* the offset the claim names: after the last import line that lies before
\* the first line of the script section that is neither blank nor an import
ClaimedInsertionPoint(text) ==
    LET rest == AfterScriptTag(text)
        code == {j \in LineStarts(rest) : j <= Len(rest) /\ ~IsImportLine(rest, j)
                                             /\ ~IsBlankLine(rest, j)}
        firstCode == IF code = {} THEN Len(rest) + 1 ELSE MinOf(code)
        leading == {j \in LineStarts(rest) : j < firstCode /\ IsImportLine(rest, j)}
    IN  IF leading = {} THEN ScriptTagEnd(text)
        ELSE ScriptTagEnd(text) + LineEnd(rest, MaxOf(leading))

\* the offset after the last import line anywhere after the script tag
LastImportLinePoint(text) ==
    LET rest == AfterScriptTag(text)
        lines == {j \in LineStarts(rest) : IsImportLine(rest, j)}
    IN  IF lines = {} THEN ScriptTagEnd(text)
        ELSE ScriptTagEnd(text) + LineEnd(rest, MaxOf(lines))

----------------------------------------------------------------------------
(* C5: for every kebab-case or snake_case stem the resolved name is the    *)
(* PascalCase of its words and ends with "Icon", which is appended exactly *)
(* when the PascalCase name does not already end with it.                  *)

\* the PascalCase form expected of each word of StemWords: the first
\* character upper-cased, the others unchanged
PascalOf(word) ==
    CASE word = "user" -> "User"
      [] word = "profile" -> "Profile"
      [] word = "icon" -> "Icon"
      [] word = "arrowLeft" -> "ArrowLeft"

KebabWords == {"user", "profile", "icon"}

\* the stem a generated path was built from
GeneratedStem(path) ==
    LET tail == IF StartsWithAt(path, "/icons/", 1) THEN SubSeq(path, 8, Len(path))
                ELSE path
    IN  SubSeq(tail, 1, Len(tail) - 4)

RECURSIVE PascalOfAll(_)
PascalOfAll(words) ==
    IF words = <<>> THEN "" ELSE PascalOf(Head(words)) \o PascalOfAll(Tail(words))

StemWordsOf(path) == Split(GeneratedStem(path), {"-", "_"})

IsKebabOrSnake(path) ==
    \A i \in 1..Len(StemWordsOf(path)) : StemWordsOf(path)[i] \in KebabWords

C5_PascalCaseIconOnce ==
    (pc = "resolved" /\ IsKebabOrSnake(svg_path))
        => LET pascal == PascalOfAll(StemWordsOf(svg_path)) IN
           /\ EndsWith(component_name, "Icon")
           /\ component_name \in {pascal, pascal \o "Icon"}
           /\ (component_name = pascal \o "Icon") <=> ~EndsWith(pascal, "Icon")

\* the stem of the specification's own example
C5_Witness ==
    /\ pc = "resolved"
    /\ svg_path = "user_profile-icon.svg"
    /\ component_name = "UserProfileIcon"

----------------------------------------------------------------------------
(* C6: a document with a valid candidate tag and no script section is      *)
(* reported unchanged after a warning, nothing is written and its text     *)
(* stays as it was.                                                        *)

HasValidCandidate == \E i \in 1..Len(matches) : SourcePathOf(matches[i]) # ""

C6_NoScriptNoChange ==
    (~Contains(original_content, "<script") /\ HasValidCandidate)
        => /\ file = original_content
           /\ content = original_content
           /\ ~written
           /\ insert_at = -1
           /\ pc = "done" => (result = FALSE /\ warned)

C6_Witness ==
    /\ pc = "done"
    /\ ~Contains(original_content, "<script")
    /\ HasValidCandidate
    /\ warned
    /\ result = FALSE
    /\ Len(replacements) >= 1

----------------------------------------------------------------------------
(* C7: a candidate tag with a dynamic-source binding is never parsed,      *)
(* never the original of a replacement, contributes no import statement    *)
(* and raises the skipped count by one.                                    *)

C7_DynamicSrcSkipped ==
    /\ Len(skipped_img_tags)
          = Cardinality({i \in Processed : IsDynamic(matches[i])})
    /\ \A i \in 1..Len(skipped_img_tags) : IsDynamic(skipped_img_tags[i])
    /\ \A i \in 1..Len(parse_log) : ~IsDynamic(parse_log[i])
    /\ \A i \in 1..Len(replacements) : ~IsDynamic(replacements[i][1])
    /\ \A k \in 1..Len(imports_to_add) :
          \E i \in Processed : /\ ~IsDynamic(matches[i])
                               /\ imports_to_add[k] = ExpectedImportOf(matches[i])
    /\ pc # "scan" =>
          Len(skipped_img_tags)
             = Cardinality({i \in 1..Len(matches) : IsDynamic(matches[i])})

\* a finished document with a skipped tag and a transformed one
C7_Witness ==
    /\ pc = "done"
    /\ Len(skipped_img_tags) = 1
    /\ Len(replacements) = 1
    /\ Len(imports_to_add) = 1

----------------------------------------------------------------------------
(* C8: a tag with :class="v" or :style="v" gets no plain class="v" or      *)
(* style="v" from it: the parser keeps the binding out of the plain        *)
(* attributes and as a directive only, and the replacement carries the     *)
(* binding alone.                                                          *)

HasAttribute(attributes, n) == \E i \in 1..Len(attributes) : attributes[i].name = n

BindingKeptAsDirectiveOnly(binding, plain, plainName) ==
    /\ (Len(replacements) > 0 /\ replacements[Len(replacements)][1] = img_tag
           /\ Contains(img_tag, binding) /\ ~Contains(img_tag, " " \o plainName \o "="))
         => /\ ~HasAttribute(parsed.attributes, plainName)
            /\ HasAttribute(parsed.vue_directives, ":" \o plainName)
    /\ \A i \in 1..Len(replacements) :
          (Contains(replacements[i][1], binding)
               /\ ~Contains(replacements[i][1], plain))
            => /\ Contains(replacements[i][2], binding)
               /\ ~Contains(replacements[i][2], plain)

C8_BindingsNotPlain ==
    /\ BindingKeptAsDirectiveOnly(" :class=\"b\"", " class=\"b\"", "class")
    /\ BindingKeptAsDirectiveOnly(" :style=\"b\"", " style=\"b\"", "style")

----------------------------------------------------------------------------
(* C9: each word of the stem contributes its first character upper-cased   *)
(* and its other characters unchanged, so a camelCase word keeps its inner *)
(* capitals.                                                               *)

C9_InnerCapitalsKept ==
    pc = "resolved"
        => LET pascal == PascalOfAll(StemWordsOf(svg_path)) IN
           component_name = IF EndsWith(pascal, "Icon") THEN pascal
                            ELSE pascal \o "Icon"

----------------------------------------------------------------------------
(* C10: every attribute of the original tag is rendered at most once: the  *)
(* replacement repeats no attribute name and has no more attributes than   *)
(* the original tag has besides src and v-svg-inline.                      *)

\* the attribute tokens of a tag whose values hold no blank: the pieces
\* between blanks, without the element name and the closing "/>"
TokensOf(tag) ==
    SelectSeq(Tail(Split(tag, {" "})), LAMBDA t : t # "" /\ t # "/>")

\* the name of an attribute token: the text before "="
TokenName(t) == IF Contains(t, "=") THEN SubSeq(t, 1, Find(t, "=", 1) - 1) ELSE t

RenderedOnce(old, new) ==
    /\ \A i, j \in 1..Len(TokensOf(new)) :
          i # j => TokenName(TokensOf(new)[i]) # TokenName(TokensOf(new)[j])
    /\ Len(TokensOf(new)) <= Len(TokensOf(old)) - 2

C10_EachAttributeOnce ==
    \A i \in 1..Len(replacements) :
        RenderedOnce(replacements[i][1], replacements[i][2])

====
